---- MODULE Spec2Model ----
(***************************************************************************)
(* A model of the batch scripts of the repository: data_processing.py      *)
(* (embedding of terrazas/actividades into locales documents),             *)
(* data_cleaning_airbnb.py (cleaning of the Airbnb listings CSV),          *)
(* data_modelling_airbnb.py (listings CSV to nested JSON documents) and    *)
(* data_cleaning.py (cleaning of the municipal JSON files).                *)
(*                                                                         *)
(* Each script is a linear run; `pc` is the statement the run has reached. *)
(* A table (pandas DataFrame) is a record [cols, rows]: `cols` the set of  *)
(* column names, `rows` the sequence of rows, each row a function from     *)
(* `cols` to cells.  A cell is a record [t, v]: t is the runtime type of   *)
(* the value ("nan" is the missing-value sentinel) and v its payload.      *)
(***************************************************************************)
EXTENDS Integers, Sequences, FiniteSets, TLC

VARIABLES
    script,   \* which script this run executes
    pc,       \* the statement the run has reached
    input,    \* the files the run reads (never modified)
    df,       \* the table(s) the run currently holds
    docs,     \* the documents built so far
    files,    \* the output files: path -> [exists, complete, content]
    printed,  \* the diagnostics printed so far, in order
    exc,      \* the exception that left the script uncaught ("" when none)
    prev      \* the table as it was before the statement that ran last

vars == <<script, pc, input, df, docs, files, printed, exc, prev>>

----------------------------------------------------------------------------
(* Cells and generic helpers                                               *)

NaN == [t |-> "nan", v |-> <<>>]
Str(s) == [t |-> "str", v |-> s]
Num(n) == [t |-> "num", v |-> <<n>>]
List(l) == [t |-> "list", v |-> l]

\* isinstance(x, list)
IsList(x) == x.t = "list"

\* pd.isna(x)
IsNa(x) == x.t = "nan"

SeqsUpTo(S, n) == UNION {[1..k -> S] : k \in 0..n}

NonEmptySeqsUpTo(S, n) == UNION {[1..k -> S] : k \in 1..n}

\* the subsequence of s at the positions satisfying Keep, in order
RECURSIVE SelectIdx(_, _, _)
SelectIdx(s, Keep(_), i) ==
    IF i > Len(s) THEN <<>>
    ELSE (IF Keep(i) THEN <<s[i]>> ELSE <<>>) \o SelectIdx(s, Keep, i + 1)

RECURSIVE Flatten(_)
Flatten(ss) == IF ss = <<>> THEN <<>> ELSE Head(ss) \o Flatten(Tail(ss))

\* ascending enumeration of a finite set of integers
RECURSIVE SortedSeq(_)
SortedSeq(S) ==
    IF S = {} THEN <<>>
    ELSE LET m == CHOOSE x \in S : \A y \in S : x <= y
         IN <<m>> \o SortedSeq(S \ {m})

NoFile == [exists |-> FALSE, complete |-> FALSE, content |-> <<>>]

----------------------------------------------------------------------------
(* data_processing.py                                                      *)

MaxLocales == 2
MaxTerrazas == 3
MaxActividades == 2
MaxLicencias == 1

IdLocals == {5, 7}

\* columns a cleaned locales file may carry besides id_local and rotulo
ExtraLocalesCols == {"terrazas", "actividades"}

TerrazasFields == {"id_terraza"}
ActividadesFields == {"id_epigrafe"}

\* a child table whose rows carry the given id_local values; the row's own
\* identifier (id_terraza, id_epigrafe) is its position in the file
ChildTable(ids, idcol) ==
    [cols |-> {"id_local", idcol},
     rows |-> [i \in DOMAIN ids |->
                 [c \in {"id_local", idcol} |->
                    IF c = "id_local" THEN Num(ids[i]) ELSE Num(i)]]]

\* a locales table: rotulo is the row's position; the extra columns hold text
LocalesTable(ids, extra) ==
    LET cols == {"id_local", "rotulo"} \cup extra
    IN [cols |-> cols,
        rows |-> [i \in DOMAIN ids |->
                    [c \in cols |->
                       IF c = "id_local" THEN Num(ids[i])
                       ELSE IF c = "rotulo" THEN Num(i)
                       ELSE Str(<<"x">>)]]]

LicenciasTable(ids) ==
    [cols |-> {"id_local", "ref_licencia"},
     rows |-> [i \in DOMAIN ids |->
                 [c \in {"id_local", "ref_licencia"} |->
                    IF c = "id_local" THEN Num(ids[i]) ELSE Num(i)]]]

ProcessingInputs(l, x, t, a, c) ==
    [locales |-> LocalesTable(l, x),
     terrazas |-> ChildTable(t, "id_terraza"),
     actividades |-> ChildTable(a, "id_epigrafe"),
     licencias |-> LicenciasTable(c)]

\* the value of load_cleaned_json when a file cannot be read: {}
NoTables == [loaded |-> FALSE]

\* df.groupby(col).apply(lambda x: [{f: row[f] for f in fields} ...])
\*   .reset_index(name=col.lower() + 's')
\* one row per distinct key, keys ascending (groupby sorts), the group's rows
\* in their original order, projected on `fields`; the list column is named
\* after the GROUPING column: "id_local" gives "id_locals".
group_and_embed_data(t, group_by_column, fields_to_embed) ==
    LET keys == SortedSeq({t.rows[i][group_by_column].v[1] : i \in DOMAIN t.rows})
        name == group_by_column \o "s"
        Embedded(k) ==
            LET InGroup(i) == t.rows[i][group_by_column].v[1] = k
                members == SelectIdx(t.rows, InGroup, 1)
            IN [j \in DOMAIN members |->
                  [f \in fields_to_embed |-> members[j][f]]]
    IN [cols |-> {group_by_column, name},
        rows |-> [n \in DOMAIN keys |->
                    [c \in {group_by_column, name} |->
                       IF c = group_by_column THEN Num(keys[n])
                       ELSE List(Embedded(keys[n]))]]]

\* the column names of left.merge(right, on=on): a name both sides carry
\* (other than the key) gets the suffixes _x and _y
MergedLeftName(c, left, right, on) ==
    IF c # on /\ c \in right.cols THEN c \o "_x" ELSE c

MergedRightName(c, left, right, on) ==
    IF c \in left.cols THEN c \o "_y" ELSE c

\* left.merge(right, on=on, how="left"): every left row, in order, once per
\* matching right row (right order), or once with NaN when nothing matches
merge_left(left, right, on) ==
    LET lcols == {MergedLeftName(c, left, right, on) : c \in left.cols}
        rcols == {MergedRightName(c, left, right, on) : c \in right.cols \ {on}}
        LeftSource(n) == CHOOSE c \in left.cols : MergedLeftName(c, left, right, on) = n
        RightSource(n) == CHOOSE c \in right.cols \ {on} : MergedRightName(c, left, right, on) = n
        Joined(lrow, rrow) ==
            [n \in lcols \cup rcols |->
               IF n \in lcols THEN lrow[LeftSource(n)] ELSE rrow[RightSource(n)]]
        Unmatched(lrow) ==
            [n \in lcols \cup rcols |->
               IF n \in lcols THEN lrow[LeftSource(n)] ELSE NaN]
        Matches(lrow) ==
            LET Hit(j) == right.rows[j][on] = lrow[on]
            IN SelectIdx(right.rows, Hit, 1)
        RowsFor(lrow) ==
            LET m == Matches(lrow)
            IN IF m = <<>> THEN <<Unmatched(lrow)>>
               ELSE [j \in DOMAIN m |-> Joined(lrow, m[j])]
    IN [cols |-> lcols \cup rcols,
        rows |-> Flatten([i \in DOMAIN left.rows |-> RowsFor(left.rows[i])])]

\* construct_locales_document (the nested groups hold further columns of the
\* row, read the same way as id_local and rotulo)
construct_locales_document(row, terrazas, actividades) ==
    [id_local |-> row["id_local"],
     rotulo |-> row["rotulo"],
     terrazas |-> terrazas,
     actividades |-> actividades]

\* locales[col].apply(lambda x: x if isinstance(x, list) else [])
ListOrEmpty(x) == IF IsList(x) THEN x ELSE List(<<>>)

\* generate_locales_and_licencias: [error, locales_docs, licencias_docs]
generate_locales_and_licencias(locales, terrazas, actividades, licencias) ==
    LET terrazas_grouped == group_and_embed_data(terrazas, "id_local", TerrazasFields)
        actividades_grouped == group_and_embed_data(actividades, "id_local", ActividadesFields)
        merged == merge_left(merge_left(locales, terrazas_grouped, "id_local"),
                             actividades_grouped, "id_local")
        licencias_docs ==
            [i \in DOMAIN licencias.rows |->
               [ref_licencia |-> licencias.rows[i]["ref_licencia"],
                id_local |-> licencias.rows[i]["id_local"]]]
    IN IF "terrazas" \notin merged.cols
       THEN [error |-> "KeyError: 'terrazas'", locales_docs |-> <<>>, licencias_docs |-> <<>>]
       ELSE IF "actividades" \notin merged.cols
       THEN [error |-> "KeyError: 'actividades'", locales_docs |-> <<>>, licencias_docs |-> <<>>]
       ELSE [error |-> "",
             locales_docs |->
                [i \in DOMAIN merged.rows |->
                   construct_locales_document(merged.rows[i],
                       ListOrEmpty(merged.rows[i]["terrazas"]),
                       ListOrEmpty(merged.rows[i]["actividades"]))],
             licencias_docs |-> licencias_docs]

\* what `with open(path, 'w') as file: json.dump(data, file)` leaves on disk:
\* fault "open": open raises, the file is untouched; fault "write": the file
\* is created/truncated and the dump raises after `k` documents; "none": the
\* whole list is written.
SaveFaults == {"none", "open", "write"}

WrittenFile(old, data, fault, k) ==
    CASE fault = "open" -> old
      [] fault = "write" -> [exists |-> TRUE, complete |-> FALSE, content |-> SubSeq(data, 1, k)]
      [] OTHER -> [exists |-> TRUE, complete |-> TRUE, content |-> data]

ProcessingFiles == {"structured_locales.json", "structured_licencias.json"}

InitProcessing ==
    /\ script = "data_processing"
    /\ pc = "load"
    /\ \E l \in SeqsUpTo(IdLocals, MaxLocales), x \in SUBSET ExtraLocalesCols,
          t \in NonEmptySeqsUpTo(IdLocals, MaxTerrazas),
          a \in NonEmptySeqsUpTo(IdLocals, MaxActividades),
          c \in SeqsUpTo(IdLocals, MaxLicencias) :
            input = ProcessingInputs(l, x, t, a, c)
    /\ df = NoTables
    /\ docs = [locales |-> <<>>, licencias |-> <<>>]
    /\ files = [p \in ProcessingFiles |-> NoFile]
    /\ printed = <<>>
    /\ exc = ""
    /\ prev = NoTables

\* load_cleaned_json: all four files are read, or any failure gives {}
LoadCleanedJson ==
    /\ script = "data_processing" /\ pc = "load"
    /\ \E readable \in BOOLEAN :
         IF readable
         THEN /\ df' = [loaded |-> TRUE] @@ input
              /\ printed' = printed
         ELSE /\ df' = NoTables
              /\ printed' = Append(printed, "Error loading JSON files")
    /\ pc' = "generate"
    /\ UNCHANGED <<script, input, docs, files, exc, prev>>

\* __main__ lines 211-213: data["locales"] ... then the generation
Generate ==
    /\ script = "data_processing" /\ pc = "generate"
    /\ IF ~df.loaded
       THEN /\ exc' = "KeyError: 'locales'"
            /\ pc' = "crashed"
            /\ docs' = docs
       ELSE LET r == generate_locales_and_licencias(df.locales, df.terrazas,
                                                    df.actividades, df.licencias)
            IN IF r.error # ""
               THEN /\ exc' = r.error
                    /\ pc' = "crashed"
                    /\ docs' = docs
               ELSE /\ exc' = exc
                    /\ pc' = "save_locales"
                    /\ docs' = [locales |-> r.locales_docs, licencias |-> r.licencias_docs]
    /\ UNCHANGED <<script, input, df, files, printed, prev>>

\* save_to_json(locales_docs, output_files["locales"])
SaveLocales ==
    /\ script = "data_processing" /\ pc = "save_locales"
    /\ \E fault \in SaveFaults, k \in 0..Len(docs.locales) :
         /\ files' = [files EXCEPT !["structured_locales.json"] =
                         WrittenFile(@, docs.locales, fault, k)]
         /\ printed' = Append(printed, IF fault = "none" THEN "Data saved to"
                                       ELSE "Error saving data to")
    /\ pc' = "save_licencias"
    /\ UNCHANGED <<script, input, df, docs, exc, prev>>

\* save_to_json(licencias_docs, output_files["licencias"])
SaveLicencias ==
    /\ script = "data_processing" /\ pc = "save_licencias"
    /\ \E fault \in SaveFaults, k \in 0..Len(docs.licencias) :
         /\ files' = [files EXCEPT !["structured_licencias.json"] =
                         WrittenFile(@, docs.licencias, fault, k)]
         /\ printed' = Append(printed, IF fault = "none" THEN "Data saved to"
                                       ELSE "Error saving data to")
    /\ pc' = "done"
    /\ UNCHANGED <<script, input, df, docs, exc, prev>>

NextProcessing == LoadCleanedJson \/ Generate \/ SaveLocales \/ SaveLicencias

SpecProcessing == InitProcessing /\ [][NextProcessing]_vars

----------------------------------------------------------------------------
(* Text: a Python str is the sequence of its characters                    *)

Digits == {"0", "1", "2", "3", "4", "5", "6", "7", "8", "9"}

DigitValue(c) ==
    CASE c = "0" -> 0 [] c = "1" -> 1 [] c = "2" -> 2 [] c = "3" -> 3
      [] c = "4" -> 4 [] c = "5" -> 5 [] c = "6" -> 6 [] c = "7" -> 7
      [] c = "8" -> 8 [] c = "9" -> 9

\* the text is a decimal integer literal
IsNumeric(s) == s # <<>> /\ \A i \in DOMAIN s : s[i] \in Digits

RECURSIVE ToNumber(_)
ToNumber(s) ==
    IF s = <<>> THEN 0
    ELSE 10 * ToNumber(SubSeq(s, 1, Len(s) - 1)) + DigitValue(s[Len(s)])

\* str.lower() on the letters the model's texts use
LowerChar(c) ==
    CASE c = "A" -> "a" [] c = "W" -> "w" [] c = "P" -> "p" [] OTHER -> c

str_lower(s) == [i \in DOMAIN s |-> LowerChar(s[i])]

RECURSIVE str_lstrip(_)
str_lstrip(s) ==
    IF s # <<>> /\ Head(s) = " " THEN str_lstrip(Tail(s)) ELSE s

RECURSIVE str_rstrip(_)
str_rstrip(s) ==
    IF s # <<>> /\ s[Len(s)] = " " THEN str_rstrip(SubSeq(s, 1, Len(s) - 1)) ELSE s

\* str.strip()
str_strip(s) == str_rstrip(str_lstrip(s))

\* str.replace(c, ''): every occurrence of a character of `chars` removed
RECURSIVE str_remove(_, _)
str_remove(s, chars) ==
    IF s = <<>> THEN <<>>
    ELSE (IF Head(s) \in chars THEN <<>> ELSE <<Head(s)>>) \o str_remove(Tail(s), chars)

\* Series.str.<f>() on one cell of an object column: a str is transformed,
\* any other value (NaN, a number) becomes NaN
StrAccessor(cell, F(_)) == IF cell.t = "str" THEN Str(F(cell.v)) ELSE NaN

----------------------------------------------------------------------------
(* pd.read_csv: a CSV file is a table of texts, the empty text a missing   *)
(* field.  A column whose fields are all numeric or missing is parsed as   *)
(* numbers, any other column keeps its texts (dtype object); a file with   *)
(* a header and no row gives object columns.                               *)

ColumnIsNumeric(raw, c) ==
    /\ raw.rows # <<>>
    /\ \A i \in DOMAIN raw.rows : raw.rows[i][c] = <<>> \/ IsNumeric(raw.rows[i][c])

ParsedCell(raw, c, text) ==
    IF text = <<>> THEN NaN
    ELSE IF ColumnIsNumeric(raw, c) THEN Num(ToNumber(text))
    ELSE Str(text)

read_csv(raw) ==
    [cols |-> raw.cols,
     dtypes |-> [c \in raw.cols |-> IF ColumnIsNumeric(raw, c) THEN "number" ELSE "object"],
     rows |-> [i \in DOMAIN raw.rows |->
                 [c \in raw.cols |-> ParsedCell(raw, c, raw.rows[i][c])]]]

NoFrame == [loaded |-> FALSE]

\* table t restricted to the rows at the positions satisfying Keep
FilterRows(t, Keep(_)) == [t EXCEPT !.rows = SelectIdx(t.rows, Keep, 1)]

\* table t without the columns of `drop`
DropColumns(t, drop) ==
    [cols |-> t.cols \ drop,
     dtypes |-> [c \in t.cols \ drop |-> t.dtypes[c]],
     rows |-> [i \in DOMAIN t.rows |-> [c \in t.cols \ drop |-> t.rows[i][c]]]]

----------------------------------------------------------------------------
(* data_cleaning_airbnb.py                                                 *)

MaxListings == 3

LatitudeTexts == {<<>>, <<"1">>}
LongitudeTexts == {<<>>, <<"1">>, <<"2">>}
NeighbourhoodCleansedTexts == {<<>>, <<"c">>}
NameTexts == {<<>>, <<"a">>, <<" ", "A">>}
\* neighbourhood fields:  (empty)   n   1
NeighbourhoodTexts == {<<>>, <<"n">>, <<"1">>}

\* the usual field of each column of a line
UsualKeyText ==
    [latitude |-> <<"1">>, longitude |-> <<"1">>, neighbourhood_cleansed |-> <<"c">>,
     name |-> <<"a">>, neighbourhood |-> <<"n">>]

AirbnbCols ==
    {"id", "listing_url", "latitude", "longitude", "neighbourhood_cleansed", "name",
     "neighbourhood"}

\* one line of listings.csv; `id` is filled in from the line number
\* at most one of its fields is empty or unusual
ListingLines ==
    {l \in [latitude : LatitudeTexts, longitude : LongitudeTexts,
            neighbourhood_cleansed : NeighbourhoodCleansedTexts, name : NameTexts,
            neighbourhood : NeighbourhoodTexts] :
        Cardinality({c \in DOMAIN UsualKeyText : l[c] # UsualKeyText[c]}) <= 1}

DigitText(i) == <<CHOOSE c \in Digits : DigitValue(c) = i>>

ListingsCsv(lines) ==
    [cols |-> AirbnbCols,
     rows |-> [i \in DOMAIN lines |->
                 [c \in AirbnbCols |->
                    IF c = "id" THEN DigitText(i)
                    ELSE IF c = "listing_url" THEN <<"u">>
                    ELSE lines[i][c]]]]

unnecessary_columns ==
    {"listing_url", "scrape_id", "last_scraped", "picture_url", "host_url",
     "host_thumbnail_url", "host_picture_url", "license", "calendar_updated",
     "calendar_last_scraped"}

\* df.drop(columns=[col for col in unnecessary_columns if col in df.columns])
remove_unnecessary_columns(t) == DropColumns(t, unnecessary_columns \cap t.cols)

\* df.fillna(value=fill_defaults): the missing cells of the columns named
fillna(t, defaults) ==
    [t EXCEPT
       !.rows = [i \in DOMAIN t.rows |->
                   [c \in t.cols |->
                      IF c \in DOMAIN defaults /\ IsNa(t.rows[i][c])
                      THEN defaults[c] ELSE t.rows[i][c]]],
       !.dtypes = [c \in t.cols |->
                     IF /\ c \in DOMAIN defaults
                        /\ defaults[c].t = "str"
                        /\ \E i \in DOMAIN t.rows : IsNa(t.rows[i][c])
                     THEN "object" ELSE t.dtypes[c]]]

\* df.dropna(subset=...): the rows with no missing cell in the subset
dropna(t, subset) ==
    LET Complete(i) == \A c \in subset : ~IsNa(t.rows[i][c])
    IN FilterRows(t, Complete)

airbnb_fill_defaults ==
    [neighbourhood |-> Str(<<"D", "e", "s", "c", "o", "n", "o", "c", "i", "d", "o">>),
     price |-> Num(0)]

required_keys == {"latitude", "longitude", "neighbourhood_cleansed"}

\* handle_missing_values with "name" added to the subset of dropna
handle_missing_values_name_required(t) ==
    dropna(fillna(t, airbnb_fill_defaults), required_keys \cup {"name"})

\* handle_missing_values
handle_missing_values(t) == dropna(fillna(t, airbnb_fill_defaults), required_keys)

text_columns == {"neighbourhood", "room_type", "property_type", "name"}

\* the columns on which df[col].str raises AttributeError: not dtype object
NotTextColumns(t) == {c \in text_columns \cap t.cols : t.dtypes[c] # "object"}

strip_lower(s) == str_lower(str_strip(s))

\* normalize_text, when every text column present has dtype object
normalize_text(t) ==
    [t EXCEPT
       !.rows = [i \in DOMAIN t.rows |->
                   [c \in t.cols |->
                      IF c \in text_columns
                      THEN StrAccessor(t.rows[i][c], strip_lower)
                      ELSE t.rows[i][c]]]]

dedup_keys == {"latitude", "longitude", "name"}

\* the cells of a row on the columns of `subset`
KeyOf(row, subset) == [c \in subset |-> row[c]]

\* a scan that drops only the second row of each group of agreeing rows
RECURSIVE DropSecondOnly(_, _, _, _)
DropSecondOnly(rows, subset, seen, dropped) ==
    IF rows = <<>> THEN <<>>
    ELSE LET k == KeyOf(Head(rows), subset)
         IN IF k \in seen /\ k \notin dropped
            THEN DropSecondOnly(Tail(rows), subset, seen, dropped \cup {k})
            ELSE <<Head(rows)>> \o DropSecondOnly(Tail(rows), subset, seen \cup {k}, dropped)

KeepFirstOnePerPass(rows, subset, seen) == DropSecondOnly(rows, subset, seen, {})

\* DataFrame.duplicated(subset, keep='first') scans the rows in order and
\* marks a row whose key has been seen before (NaN keys compare equal)
RECURSIVE KeepFirstScan(_, _, _)
KeepFirstScan(rows, subset, seen) ==
    IF rows = <<>> THEN <<>>
    ELSE LET k == KeyOf(Head(rows), subset)
         IN IF k \in seen
            THEN KeepFirstScan(Tail(rows), subset, seen)
            ELSE <<Head(rows)>> \o KeepFirstScan(Tail(rows), subset, seen \cup {k})

KeepFirst(rows, subset, seen) == KeepFirstScan(rows, subset, seen)

drop_duplicates(t, subset) == [t EXCEPT !.rows = KeepFirst(t.rows, subset, {})]

\* remove_duplicates without the subset: rows compared on every column
remove_duplicates_all_columns(t) == drop_duplicates(t, t.cols)

\* remove_duplicates
remove_duplicates(t) == drop_duplicates(t, dedup_keys)

CleanedCsvPath == "output/cleaned_listings.csv"

InitAirbnbClean ==
    /\ script = "data_cleaning_airbnb"
    /\ pc = "load_data"
    /\ input \in {ListingsCsv(l) : l \in SeqsUpTo(ListingLines, MaxListings)}
    /\ df = NoFrame
    /\ prev = NoFrame
    /\ docs = <<>>
    /\ files = [p \in {CleanedCsvPath} |-> NoFile]
    /\ printed = <<>>
    /\ exc = ""

\* clean_airbnb_data lines 117-119: load_data, and return when it gave None
CleanLoadData ==
    /\ script = "data_cleaning_airbnb" /\ pc = "load_data"
    /\ \E readable \in BOOLEAN :
         IF readable
         THEN /\ df' = read_csv(input)
              /\ printed' = Append(printed, "=== Initial Dataset Overview ===")
              /\ pc' = "remove_unnecessary_columns"
         ELSE /\ df' = NoFrame
              /\ printed' = Append(printed, "Error loading data from")
              /\ pc' = "done"
    /\ prev' = df
    /\ UNCHANGED <<script, input, docs, files, exc>>

\* line 122
CleanRemoveUnnecessaryColumns ==
    /\ script = "data_cleaning_airbnb" /\ pc = "remove_unnecessary_columns"
    /\ df' = remove_unnecessary_columns(df)
    /\ prev' = df
    /\ pc' = "handle_missing_values"
    /\ UNCHANGED <<script, input, docs, files, printed, exc>>

\* line 125
CleanHandleMissingValues ==
    /\ script = "data_cleaning_airbnb" /\ pc = "handle_missing_values"
    /\ df' = handle_missing_values(df)
    /\ prev' = df
    /\ printed' = Append(printed, "Dropped rows with missing latitude/longitude")
    /\ pc' = "normalize_text"
    /\ UNCHANGED <<script, input, docs, files, exc>>

\* line 128: no handler surrounds it, an AttributeError ends the script
CleanNormalizeText ==
    /\ script = "data_cleaning_airbnb" /\ pc = "normalize_text"
    /\ IF NotTextColumns(df) # {}
       THEN /\ exc' = "AttributeError: Can only use .str accessor with string values"
            /\ pc' = "crashed"
            /\ UNCHANGED <<df, prev, printed>>
       ELSE /\ df' = normalize_text(df)
            /\ prev' = df
            /\ printed' = Append(printed, "Normalized text in categorical columns.")
            /\ pc' = "remove_duplicates"
            /\ exc' = exc
    /\ UNCHANGED <<script, input, docs, files>>

\* line 131
CleanRemoveDuplicates ==
    /\ script = "data_cleaning_airbnb" /\ pc = "remove_duplicates"
    /\ df' = remove_duplicates(df)
    /\ prev' = df
    /\ printed' = Append(printed, "Removed duplicates.")
    /\ pc' = "save"
    /\ UNCHANGED <<script, input, docs, files, exc>>

\* line 134: save_cleaned_data, df.to_csv inside try/except
CleanSave ==
    /\ script = "data_cleaning_airbnb" /\ pc = "save"
    /\ \E fault \in SaveFaults, k \in 0..Len(df.rows) :
         /\ files' = [files EXCEPT ![CleanedCsvPath] = WrittenFile(@, df.rows, fault, k)]
         /\ printed' = Append(printed, IF fault = "none" THEN "Cleaned dataset saved to"
                                       ELSE "Error saving cleaned data to")
    /\ pc' = "done"
    /\ UNCHANGED <<script, input, df, docs, exc, prev>>

NextAirbnbClean ==
    \/ CleanLoadData
    \/ CleanRemoveUnnecessaryColumns
    \/ CleanHandleMissingValues
    \/ CleanNormalizeText
    \/ CleanRemoveDuplicates
    \/ CleanSave

SpecAirbnbClean == InitAirbnbClean /\ [][NextAirbnbClean]_vars

----------------------------------------------------------------------------
(* data_modelling_airbnb.py                                                *)

MaxCleanedListings == 2

\* the amenities texts of the model:  ['Wifi', 'Pool']   not-a-list
\* [1, 2]   'ab'   [' W']   and the empty field
WifiPoolText ==
    <<"[", "'", "W", "i", "f", "i", "'", ",", " ", "'", "P", "o", "o", "l", "'", "]">>
NotAListText == <<"n", "o", "t", "-", "a", "-", "l", "i", "s", "t">>
IntListText == <<"[", "1", ",", " ", "2", "]">>
QuotedText == <<"'", "a", "b", "'">>
PaddedItemText == <<"[", "'", " ", "W", "'", "]">>

AmenitiesTexts == {<<>>, WifiPoolText, NotAListText, IntListText, QuotedText, PaddedItemText}

\* price fields:  (empty)   7   $1,2   $a
PriceTexts == {<<>>, <<"7">>, <<"$", "1", ",", "2">>, <<"$", "a">>}

\* host_response_rate fields:  9%   a%
RateTexts == {<<"9", "%">>, <<"a", "%">>}

ModellingCols == {"id", "amenities", "price", "host_response_rate", "accommodates"}

\* the usual field of each column of a line
UsualListingText == [amenities |-> WifiPoolText, price |-> <<"7">>, host_response_rate |-> <<"9", "%">>]

\* the lines of cleaned_listings.csv: at most one field is not the usual one
CleanedListingLines ==
    {l \in [amenities : AmenitiesTexts, price : PriceTexts, host_response_rate : RateTexts] :
        Cardinality({c \in DOMAIN UsualListingText : l[c] # UsualListingText[c]}) <= 1}

\* one line of cleaned_listings.csv; id and accommodates are the line number
CleanedListingsCsv(lines) ==
    [cols |-> ModellingCols,
     rows |-> [i \in DOMAIN lines |->
                 [c \in ModellingCols |->
                    IF c \in {"id", "accommodates"} THEN DigitText(i) ELSE lines[i][c]]]]

\* the columns cleaned_listings.csv may lack
OptionalListingCols == {"id", "amenities"}

\* a CSV file without the columns of `absent`
WithoutColumns(raw, absent) ==
    [cols |-> raw.cols \ absent,
     rows |-> [i \in DOMAIN raw.rows |-> [c \in raw.cols \ absent |-> raw.rows[i][c]]]]

modelling_fill_defaults ==
    [amenities |-> Str(<<>>), price |-> Num(0), host_response_rate |-> Num(0),
     host_acceptance_rate |-> Num(0), accommodates |-> Num(0), bathrooms |-> Num(0),
     bedrooms |-> Num(0), beds |-> Num(0), availability_365 |-> Num(0),
     host_listings_count |-> Num(0), name |-> Str(<<>>)]

\* replace_missing_values
replace_missing_values(t) == fillna(t, modelling_fill_defaults)

\* Series.replace({pattern: ''}, regex=True): the characters of `symbols`
\* are removed from the str cells, the other cells are left alone
StripSymbols(cell, symbols) ==
    IF cell.t = "str" THEN Str(str_remove(cell.v, symbols)) ELSE cell

\* a cast that never raises (errors coerced, as pd.to_numeric(errors="coerce"))
CastCoercesErrors(cell) == FALSE

\* float(x) / int(x) of one cell raises ValueError: a str that is no number
CastRaises(cell) == cell.t = "str" /\ ~IsNumeric(cell.v)

\* the value astype(float) / astype(int) gives a cell that does not raise
CastCell(cell) ==
    IF cell.t # "str" THEN cell
    ELSE IF IsNumeric(cell.v) THEN Num(ToNumber(cell.v))
    ELSE NaN

price_symbols == {"$", ","}
percent_symbols == {"%"}
percentage_columns == {"host_response_rate", "host_acceptance_rate"}
integer_columns ==
    {"accommodates", "bathrooms", "bedrooms", "beds", "availability_365", "host_listings_count"}

\* the symbols normalize_columns strips from a column before the cast
SymbolsOf(c) ==
    IF c = "price" THEN price_symbols
    ELSE IF c \in percentage_columns THEN percent_symbols
    ELSE {}

\* the columns normalize_columns casts, among those of the table
CoercedColumns(t) == ({"price"} \cup percentage_columns \cup integer_columns) \cap t.cols

\* the cells on which the cast of normalize_columns raises ValueError
normalize_columns_errors(t) ==
    {<<i, c>> \in (DOMAIN t.rows) \X CoercedColumns(t) :
        CastRaises(StripSymbols(t.rows[i][c], SymbolsOf(c)))}

\* normalize_columns, when no cast raises
normalize_columns(t) ==
    [t EXCEPT
       !.rows = [i \in DOMAIN t.rows |->
                   [c \in t.cols |->
                      IF c \in CoercedColumns(t)
                      THEN CastCell(StripSymbols(t.rows[i][c], SymbolsOf(c)))
                      ELSE t.rows[i][c]]],
       !.dtypes = [c \in t.cols |->
                     IF c \in CoercedColumns(t) THEN "number" ELSE t.dtypes[c]]]

\* ast.literal_eval on the amenities texts of the model: the Python value,
\* or the exception raised
literal_eval(text) ==
    CASE text = WifiPoolText ->
           [raised |-> "", value |-> List(<<Str(<<"W", "i", "f", "i">>), Str(<<"P", "o", "o", "l">>)>>)]
      [] text = PaddedItemText ->
           [raised |-> "", value |-> List(<<Str(<<" ", "W">>)>>)]
      [] text = IntListText ->
           [raised |-> "", value |-> List(<<Num(1), Num(2)>>)]
      [] text = QuotedText ->
           [raised |-> "", value |-> Str(<<"a", "b">>)]
      [] text = NotAListText ->
           [raised |-> "ValueError", value |-> NaN]
      [] text = <<>> ->
           [raised |-> "SyntaxError", value |-> NaN]

\* what `for item in value` iterates over: the items of a list, the
\* characters of a str
IterItems(value) ==
    IF value.t = "list" THEN value.v
    ELSE [i \in DOMAIN value.v |-> Str(<<value.v[i]>>)]

\* item.strip().replace('"', '')
CleanItem(item) == Str(str_remove(str_strip(item.v), {"\""}))

\* parse_amenities: [raised, value]; only ValueError and SyntaxError are
\* caught, an item that is no str raises AttributeError out of the function
parse_amenities(amenities_str) ==
    IF amenities_str.t # "str" THEN [raised |-> "", value |-> <<>>]
    ELSE LET parsed == literal_eval(amenities_str.v)
         IN IF parsed.raised \in {"ValueError", "SyntaxError"}
            THEN [raised |-> "", value |-> <<>>]
            ELSE IF parsed.value.t \notin {"list", "str"}
            THEN [raised |-> "TypeError: object is not iterable", value |-> <<>>]
            ELSE LET items == IterItems(parsed.value)
                 IN IF \E i \in DOMAIN items : items[i].t # "str"
                    THEN [raised |-> "AttributeError: 'int' object has no attribute 'strip'",
                          value |-> <<>>]
                    ELSE [raised |-> "", value |-> [i \in DOMAIN items |-> CleanItem(items[i])]]

\* row.get(key, default)
RowGet(row, key, default) == IF key \in DOMAIN row THEN row[key] ELSE default

\* the listing document of one row (of the nested groups, the fields the
\* model's columns feed)
ListingDocument(row) ==
    [id |-> row["id"],
     host_response_rate |-> RowGet(row, "host_response_rate", Num(0)),
     accommodates |-> RowGet(row, "accommodates", Num(0)),
     amenities |-> parse_amenities(RowGet(row, "amenities", Str(<<>>))).value,
     price |-> RowGet(row, "price", Num(0))]

\* the exception building the document of one row raises, "" when none:
\* that of parse_amenities (line 133), else KeyError of row["id"] (line 136)
ListingError(row) ==
    LET parsed == parse_amenities(RowGet(row, "amenities", Str(<<>>)))
    IN IF parsed.raised # "" THEN parsed.raised
       ELSE IF "id" \notin DOMAIN row THEN "KeyError: 'id'"
       ELSE ""

\* the rows on which transform_to_json raises, in order
TransformErrors(t) ==
    LET Raises(i) == ListingError(t.rows[i]) # ""
    IN SelectIdx([i \in DOMAIN t.rows |-> i], Raises, 1)

\* transform_to_json, when no row raises
transform_to_json(t) == [i \in DOMAIN t.rows |-> ListingDocument(t.rows[i])]

StructuredJsonPath == "collections/structured_alojamientos.json"

InitModelling ==
    /\ script = "data_modelling_airbnb"
    /\ pc = "load_data"
    /\ \E l \in SeqsUpTo(CleanedListingLines, MaxCleanedListings),
          absent \in SUBSET OptionalListingCols :
            input = WithoutColumns(CleanedListingsCsv(l), absent)
    /\ df = NoFrame
    /\ prev = NoFrame
    /\ docs = <<>>
    /\ files = [p \in {StructuredJsonPath} |-> NoFile]
    /\ printed = <<>>
    /\ exc = ""

\* transform_cleaned_listings lines 210-212
ModelLoadData ==
    /\ script = "data_modelling_airbnb" /\ pc = "load_data"
    /\ \E readable \in BOOLEAN :
         IF readable
         THEN /\ df' = read_csv(input)
              /\ printed' = printed
              /\ pc' = "replace_missing_values"
         ELSE /\ df' = NoFrame
              /\ printed' = Append(printed, "Error loading data from")
              /\ pc' = "done"
    /\ prev' = df
    /\ UNCHANGED <<script, input, docs, files, exc>>

\* line 215
ModelReplaceMissingValues ==
    /\ script = "data_modelling_airbnb" /\ pc = "replace_missing_values"
    /\ df' = replace_missing_values(df)
    /\ prev' = df
    /\ pc' = "normalize_columns"
    /\ UNCHANGED <<script, input, docs, files, printed, exc>>

\* line 218: no handler surrounds it, a ValueError ends the script
ModelNormalizeColumns ==
    /\ script = "data_modelling_airbnb" /\ pc = "normalize_columns"
    /\ IF normalize_columns_errors(df) # {}
       THEN /\ exc' = "ValueError"
            /\ pc' = "crashed"
            /\ UNCHANGED <<df, prev>>
       ELSE /\ df' = normalize_columns(df)
            /\ prev' = df
            /\ pc' = "transform_to_json"
            /\ exc' = exc
    /\ UNCHANGED <<script, input, docs, files, printed>>

\* line 221: the exception of the first row that raises ends the script
ModelTransformToJson ==
    /\ script = "data_modelling_airbnb" /\ pc = "transform_to_json"
    /\ LET bad == TransformErrors(df)
       IN IF bad # <<>>
          THEN /\ exc' = ListingError(df.rows[bad[1]])
               /\ pc' = "crashed"
               /\ docs' = docs
          ELSE /\ docs' = transform_to_json(df)
               /\ pc' = "save_to_json"
               /\ exc' = exc
    /\ UNCHANGED <<script, input, df, prev, files, printed>>

\* line 224: save_to_json, open and json.dump inside try/except
ModelSaveToJson ==
    /\ script = "data_modelling_airbnb" /\ pc = "save_to_json"
    /\ \E fault \in SaveFaults, k \in 0..Len(docs) :
         /\ files' = [files EXCEPT ![StructuredJsonPath] = WrittenFile(@, docs, fault, k)]
         /\ printed' = Append(printed, IF fault = "none" THEN "Transformed listings saved to"
                                       ELSE "Error saving transformed data to")
    /\ pc' = "done"
    /\ UNCHANGED <<script, input, df, docs, exc, prev>>

NextModelling ==
    \/ ModelLoadData
    \/ ModelReplaceMissingValues
    \/ ModelNormalizeColumns
    \/ ModelTransformToJson
    \/ ModelSaveToJson

SpecModelling == InitModelling /\ [][NextModelling]_vars

----------------------------------------------------------------------------
(* data_cleaning.py                                                        *)

MaxJsonRows == 3
MaxBatch == 2

\* desc_barrio_local values of a record:  null   "A"   "P "
BarrioValues == {NaN, Str(<<"A">>), Str(<<"P", " ">>)}

\* mesas_ra values of a record:  null   3   "4"   "5"   "x"
MesasValues == {NaN, Num(3), Str(<<"4">>), Str(<<"5">>), Str(<<"x">>)}

\* the keys a record may carry besides id; id_agrupacion stands for the
\* four agrupacion keys, which a file carries together
OptionalJsonCols == {"desc_barrio_local", "mesas_ra", "fx_carga", "id_agrupacion"}

AgrupacionCols == {"id_agrupacion", "id_tipo_agrup", "nombre_agrupacion", "desc_tipo_agrup"}

\* the agrupacion values of record i: id_agrupacion -1 on the first record,
\* nombre_agrupacion the same text in every record, the others the position
AgrupacionCell(c, i) ==
    CASE c = "id_agrupacion" -> IF i = 1 THEN Num(-1) ELSE Num(i)
      [] c = "id_tipo_agrup" -> Num(i)
      [] c = "nombre_agrupacion" -> Str(<<"g">>)
      [] c = "desc_tipo_agrup" -> Str(DigitText(i))

JsonCellValues(c) ==
    CASE c = "desc_barrio_local" -> BarrioValues
      [] c = "mesas_ra" -> MesasValues
      [] OTHER -> {NaN}

\* the usual value of each key of a record
UsualJsonValue == [desc_barrio_local |-> Str(<<"A">>), mesas_ra |-> Str(<<"4">>)]

\* the records over the optional keys `cs`, each value of its key's set;
\* at most one value of a record is not the usual one
JsonRecords(cs) ==
    {r \in [cs -> BarrioValues \cup MesasValues] :
        /\ \A c \in cs : r[c] \in JsonCellValues(c)
        /\ Cardinality({c \in cs : r[c] # UsualJsonValue[c]}) <= 1}

\* a JSON file: a list of records with the same keys; id is the position
\* of the record, fx_carga the same text in every record
JsonFile(cs, rs) ==
    LET cols == {"id"} \cup cs \cup (IF "id_agrupacion" \in cs THEN AgrupacionCols ELSE {})
    IN [cols |-> cols,
        rows |-> [i \in DOMAIN rs |->
                    [c \in cols |->
                       IF c = "id" THEN Num(i)
                       ELSE IF c = "fx_carga" THEN Str(<<"f">>)
                       ELSE IF c \in AgrupacionCols THEN AgrupacionCell(c, i)
                       ELSE rs[i][c]]]]

\* the place of a record in a file: the usual records first, then those
\* with an unusual desc_barrio_local, then those with an unusual mesas_ra
JsonValueRank(v) ==
    CASE v = NaN -> 1
      [] v = Str(<<"P", " ">>) -> 2
      [] v = Num(3) -> 3
      [] v = Str(<<"5">>) -> 4
      [] v = Str(<<"x">>) -> 5
      [] OTHER -> 0

JsonRecordRank(r) ==
    IF "desc_barrio_local" \in DOMAIN r /\ r["desc_barrio_local"] # UsualJsonValue["desc_barrio_local"]
    THEN JsonValueRank(r["desc_barrio_local"])
    ELSE IF "mesas_ra" \in DOMAIN r /\ r["mesas_ra"] # UsualJsonValue["mesas_ra"]
    THEN 2 + JsonValueRank(r["mesas_ra"])
    ELSE 0

\* the files of the batch: no step of clean_json_file looks at the position
\* of a row, so one order of each list of records is taken
JsonFiles ==
    UNION {{JsonFile(cs, rs) :
               rs \in {s \in SeqsUpTo(JsonRecords(cs \cap {"desc_barrio_local", "mesas_ra"}),
                                      MaxJsonRows) :
                          \A i, j \in DOMAIN s :
                             i < j => JsonRecordRank(s[i]) <= JsonRecordRank(s[j])}} :
           cs \in SUBSET OptionalJsonCols}

\* pd.DataFrame(data): a column with a str (or with nothing but nulls) has
\* dtype object, a column of numbers and nulls is numeric
DataFrameOf(f) ==
    [cols |-> f.cols,
     dtypes |-> [c \in f.cols |->
                   IF /\ \A i \in DOMAIN f.rows : f.rows[i][c].t \in {"num", "nan"}
                      /\ \E j \in DOMAIN f.rows : f.rows[j][c].t = "num"
                   THEN "number" ELSE "object"],
     rows |-> f.rows]

\* DataFrame.empty: no row or no column
IsEmpty(t) == t.rows = <<>> \/ t.cols = {}

\* df.apply(lambda col: col.str.strip() if col.dtype == 'object' else col)
strip_object_columns(t) ==
    [t EXCEPT
       !.rows = [i \in DOMAIN t.rows |->
                   [c \in t.cols |->
                      IF t.dtypes[c] = "object"
                      THEN StrAccessor(t.rows[i][c], str_strip)
                      ELSE t.rows[i][c]]]]

\* Series.nunique(): the number of distinct values, missing ones left out
nunique(t, c) == Cardinality({t.rows[i][c] : i \in DOMAIN t.rows} \ {NaN})

\* remove_single_value_columns
remove_single_value_columns(t) ==
    DropColumns(t, {c \in t.cols : nunique(t, c) <= 1})

json_unnecessary_fields == {"fx_carga"}

\* remove_unnecessary_fields
remove_unnecessary_fields(t, unnecessary_fields) ==
    DropColumns(t, unnecessary_fields \cap t.cols)

\* df.loc[mask, col] = value: the cells of `col` on the rows of the mask
\* are set; a column the table does not have is created, NaN elsewhere
LocSet(t, Mask(_), col, value) ==
    [cols |-> t.cols \cup {col},
     dtypes |-> [c \in t.cols \cup {col} |->
                   IF c = col /\ (col \notin t.cols \/ \E i \in DOMAIN t.rows : Mask(i))
                   THEN "object" ELSE t.dtypes[c]],
     rows |-> [i \in DOMAIN t.rows |->
                 [c \in t.cols \cup {col} |->
                    IF c = col
                    THEN (IF Mask(i) THEN value
                          ELSE IF col \in t.cols THEN t.rows[i][c] ELSE NaN)
                    ELSE t.rows[i][c]]]]

MinusOneText == Str(<<"-", "1">>)

\* update_actividad_fields
update_actividad_fields(t) ==
    IF {"id_seccion", "id_division", "id_epigrafe"} \subseteq t.cols
    THEN LET Sec(i) == t.rows[i]["id_seccion"] = MinusOneText
             Div(i) == t.rows[i]["id_division"] = MinusOneText
             Epi(i) == t.rows[i]["id_epigrafe"] = MinusOneText
         IN LocSet(LocSet(LocSet(t, Sec, "desc_seccion", Str(<<>>)),
                          Div, "desc_division", Str(<<>>)),
                   Epi, "desc_epigrafe", Str(<<>>))
    ELSE t

\* update_agrupacion_fields
update_agrupacion_fields(t) ==
    IF {"id_agrupacion", "id_tipo_agrup"} \subseteq t.cols
    THEN LET Agr(i) == t.rows[i]["id_agrupacion"] = Num(-1)
             Tip(i) == t.rows[i]["id_tipo_agrup"] = Num(-1)
         IN LocSet(LocSet(t, Agr, "nombre_agrupacion", Str(<<>>)),
                   Tip, "desc_tipo_agrup", Str(<<>>))
    ELSE t

invalid_rotulos ==
    {<<"S", "I", "N", " ", "A", "C", "T", "I", "V", "I", "D", "A", "D">>,
     <<"S", "I", "N", " ", "N", "O", "T", "I", "F", "I", "C", "A", "R">>,
     <<"S", "I", "N", " ", "R", "O", "T", "U", "L", "O">>,
     <<"S", "I", "N", " ", "I", "N", "D", "I", "C", "A", "R">>,
     <<"S", "I", "N", " ", "E", "S", "P", "E", "C", "I", "F", "I", "C", "A", "R">>,
     <<"S", "I", "N", " ", "D", "E", "F", "I", "N", "I", "R">>,
     <<"S", "I", "N", " ", "D", "E", "T", "E", "R", "M", "I", "N", "A", "R">>}

\* update_rotulo_field
update_rotulo_field(t) ==
    IF "rotulo" \in t.cols
    THEN LET Invalid(i) == t.rows[i]["rotulo"].t = "str"
                           /\ t.rows[i]["rotulo"].v \in invalid_rotulos
         IN LocSet(t, Invalid, "rotulo", Str(<<>>))
    ELSE t

\* line 91 behind a test `if "desc_barrio_local" in df.columns`
lower_barrio_error_if_present(t) ==
    IF "desc_barrio_local" \in t.cols /\ t.dtypes["desc_barrio_local"] # "object"
    THEN "AttributeError: Can only use .str accessor with string values"
    ELSE ""

\* the exception of df["desc_barrio_local"].str.lower(), "" when none
lower_barrio_error(t) ==
    IF "desc_barrio_local" \notin t.cols THEN "KeyError: 'desc_barrio_local'"
    ELSE IF t.dtypes["desc_barrio_local"] # "object"
    THEN "AttributeError: Can only use .str accessor with string values"
    ELSE ""

\* df["desc_barrio_local"] = df["desc_barrio_local"].str.lower()
lower_barrio(t) ==
    [t EXCEPT
       !.rows = [i \in DOMAIN t.rows |->
                   [t.rows[i] EXCEPT !["desc_barrio_local"] = StrAccessor(@, str_lower)]]]

json_integer_fields == {"mesas_aux_ra", "sillas_ra", "mesas_ra"}

\* the cells on which .fillna(0).astype(int) raises ValueError
cast_integer_fields_errors(t) ==
    {<<i, c>> \in (DOMAIN t.rows) \X (json_integer_fields \cap t.cols) :
        CastRaises(t.rows[i][c])}

\* lines 94-96, when no cast raises: missing cells become 0, texts numbers
cast_integer_fields(t) ==
    [t EXCEPT
       !.rows = [i \in DOMAIN t.rows |->
                   [c \in t.cols |->
                      IF c \in json_integer_fields
                      THEN (IF IsNa(t.rows[i][c]) THEN Num(0) ELSE CastCell(t.rows[i][c]))
                      ELSE t.rows[i][c]]],
       !.dtypes = [c \in t.cols |->
                     IF c \in json_integer_fields THEN "number" ELSE t.dtypes[c]]]

\* df.fillna("")
fillna_all(t, value) ==
    [t EXCEPT
       !.rows = [i \in DOMAIN t.rows |->
                   [c \in t.cols |-> IF IsNa(t.rows[i][c]) THEN value ELSE t.rows[i][c]]]]

CleanedJsonPath == "output/cleaned.json"

\* the outcomes of the files of the batch cleaned so far are kept in docs
InitCleanJson ==
    /\ script = "data_cleaning"
    /\ pc = "next_file"
    /\ input = [cols |-> {}, rows |-> <<>>]
    /\ df = NoFrame
    /\ prev = NoFrame
    /\ docs = <<>>
    /\ files = [p \in {CleanedJsonPath} |-> NoFile]
    /\ printed = <<>>
    /\ exc = ""

\* lines 115-117: the loop takes the next file of files_to_clean; `files`
\* follows the output path of the file being cleaned
JsonNextFile ==
    /\ script = "data_cleaning" /\ pc = "next_file"
    /\ Len(docs) < MaxBatch
    /\ input' \in JsonFiles
    /\ printed' = <<"Cleaning file">>
    /\ pc' = "load_json_file"
    /\ UNCHANGED <<script, df, prev, docs, files, exc>>

\* what clean_json_file left at the output path of one file
JsonFileDone == [written |-> files[CleanedJsonPath].exists,
                 complete |-> files[CleanedJsonPath].complete]

\* lines 80-82: load_json_file gives an empty frame when it fails
JsonLoad ==
    /\ script = "data_cleaning" /\ pc = "load_json_file"
    /\ \E readable \in BOOLEAN :
         IF readable /\ ~IsEmpty(DataFrameOf(input))
         THEN /\ df' = DataFrameOf(input)
              /\ printed' = printed
              /\ pc' = "strip"
         ELSE /\ df' = NoFrame
              /\ printed' = IF readable THEN printed
                            ELSE Append(printed, "Error loading JSON file")
              /\ pc' = "file_done"
    /\ prev' = df
    /\ UNCHANGED <<script, input, docs, files, exc>>

\* the `except Exception` of clean_json_file: the diagnostic, and return
JsonCaught(e) ==
    /\ printed' = Append(printed, "An error occurred while cleaning the file")
    /\ pc' = "file_done"
    /\ UNCHANGED <<df, prev>>

\* line 85
JsonStrip ==
    /\ script = "data_cleaning" /\ pc = "strip"
    /\ df' = strip_object_columns(df)
    /\ prev' = df
    /\ pc' = "remove_single_value_columns"
    /\ UNCHANGED <<script, input, docs, files, printed, exc>>

\* line 86
JsonRemoveSingleValueColumns ==
    /\ script = "data_cleaning" /\ pc = "remove_single_value_columns"
    /\ df' = remove_single_value_columns(df)
    /\ prev' = df
    /\ printed' = Append(printed, "Removing single-value columns")
    /\ pc' = "remove_unnecessary_fields"
    /\ UNCHANGED <<script, input, docs, files, exc>>

\* lines 87-90
JsonRemoveAndUpdateFields ==
    /\ script = "data_cleaning" /\ pc = "remove_unnecessary_fields"
    /\ df' = update_rotulo_field(update_agrupacion_fields(update_actividad_fields(
                 remove_unnecessary_fields(df, json_unnecessary_fields))))
    /\ prev' = df
    /\ printed' = Append(printed, "Removing unnecessary fields")
    /\ pc' = "lower_barrio"
    /\ UNCHANGED <<script, input, docs, files, exc>>

\* line 91
JsonLowerBarrio ==
    /\ script = "data_cleaning" /\ pc = "lower_barrio"
    /\ IF lower_barrio_error(df) # ""
       THEN JsonCaught(lower_barrio_error(df))
       ELSE /\ df' = lower_barrio(df)
            /\ prev' = df
            /\ pc' = "cast_integer_fields"
            /\ printed' = printed
    /\ UNCHANGED <<script, input, docs, files, exc>>

\* lines 94-96
JsonCastIntegerFields ==
    /\ script = "data_cleaning" /\ pc = "cast_integer_fields"
    /\ IF cast_integer_fields_errors(df) # {}
       THEN JsonCaught("ValueError")
       ELSE /\ df' = cast_integer_fields(df)
            /\ prev' = df
            /\ pc' = "fillna"
            /\ printed' = printed
    /\ UNCHANGED <<script, input, docs, files, exc>>

\* line 99
JsonFillna ==
    /\ script = "data_cleaning" /\ pc = "fillna"
    /\ df' = fillna_all(df, Str(<<>>))
    /\ prev' = df
    /\ pc' = "save_cleaned_data"
    /\ UNCHANGED <<script, input, docs, files, printed, exc>>

\* line 102: save_cleaned_data, open and json.dump inside its try/except
JsonSave ==
    /\ script = "data_cleaning" /\ pc = "save_cleaned_data"
    /\ \E fault \in SaveFaults, k \in 0..Len(df.rows) :
         /\ files' = [files EXCEPT ![CleanedJsonPath] = WrittenFile(@, df.rows, fault, k)]
         /\ printed' = Append(printed, IF fault = "none" THEN "Cleaned file saved at"
                                       ELSE "Error saving cleaned data")
    /\ pc' = "file_done"
    /\ UNCHANGED <<script, input, df, docs, exc, prev>>

\* clean_json_file has returned: the loop of line 115 goes on, the tables
\* of the file are dropped
JsonReturn ==
    /\ script = "data_cleaning" /\ pc = "file_done"
    /\ docs' = Append(docs, JsonFileDone)
    /\ pc' = "next_file"
    /\ input' = [cols |-> {}, rows |-> <<>>]
    /\ df' = NoFrame
    /\ prev' = NoFrame
    /\ files' = [p \in {CleanedJsonPath} |-> NoFile]
    /\ printed' = <<>>
    /\ UNCHANGED <<script, exc>>

NextCleanJson ==
    \/ JsonNextFile
    \/ JsonLoad
    \/ JsonStrip
    \/ JsonRemoveSingleValueColumns
    \/ JsonRemoveAndUpdateFields
    \/ JsonLowerBarrio
    \/ JsonCastIntegerFields
    \/ JsonFillna
    \/ JsonSave
    \/ JsonReturn

SpecCleanJson == InitCleanJson /\ [][NextCleanJson]_vars

----------------------------------------------------------------------------
(* The scripts together                                                    *)

\* the two scripts that cast text columns to numbers
InitCoercion == InitModelling \/ InitCleanJson
NextCoercion == NextModelling \/ NextCleanJson
SpecCoercion == InitCoercion /\ [][NextCoercion]_vars

Init == InitProcessing \/ InitAirbnbClean \/ InitModelling \/ InitCleanJson
Next == NextProcessing \/ NextAirbnbClean \/ NextModelling \/ NextCleanJson
Spec == Init /\ [][Next]_vars

----------------------------------------------------------------------------
(* Claims about data_processing.py                                         *)

\* generate_locales_and_licencias has been called on four loaded tables
GenerateRan ==
    /\ script = "data_processing"
    /\ pc \in {"save_locales", "save_licencias", "done", "crashed"}
    /\ df.loaded

\* the rows of a child table whose id_local is `id`, in file order, projected
\* on the embedded fields
MatchingChildren(child, id, fields) ==
    LET Hit(i) == child.rows[i]["id_local"] = id
        m == SelectIdx(child.rows, Hit, 1)
    IN [j \in DOMAIN m |-> [f \in fields |-> m[j][f]]]

\* C1: once generate_locales_and_licencias has run, the terrazas and
\* actividades keys are not missing, and every locale document holds under
\* each a list whose length is the number of child rows with the document's
\* id_local (the empty list when there is none).
C1_EmbeddedLengths ==
    GenerateRan =>
        /\ exc = ""
        /\ \A i \in DOMAIN docs.locales :
             LET d == docs.locales[i]
             IN /\ IsList(d.terrazas) /\ IsList(d.actividades)
                /\ Len(d.terrazas.v) =
                      Len(MatchingChildren(input.terrazas, d.id_local, TerrazasFields))
                /\ Len(d.actividades.v) =
                      Len(MatchingChildren(input.actividades, d.id_local, ActividadesFields))

\* the scenario of the specification: one locale row with id_local 5 and two
\* terrace rows with id_local 5
TwoTerracesScenario ==
    /\ Len(input.locales.rows) = 1
    /\ input.locales.rows[1]["id_local"] = Num(5)
    /\ Len(input.terrazas.rows) = 2
    /\ \A i \in 1..2 : input.terrazas.rows[i]["id_local"] = Num(5)

\* C2: once generate_locales_and_licencias has run, every locale document
\* exists and lists its terrazas and actividades sub-documents in the order
\* of the matching rows of the child table; in the two-terraces scenario the
\* single document has a terrazas array of length 2 in file order.
C2_EmbeddedOrder ==
    GenerateRan =>
        /\ Len(docs.locales) = Len(input.locales.rows)
        /\ \A i \in DOMAIN docs.locales :
             LET d == docs.locales[i]
             IN /\ d.terrazas =
                      List(MatchingChildren(input.terrazas, d.id_local, TerrazasFields))
                /\ d.actividades =
                      List(MatchingChildren(input.actividades, d.id_local, ActividadesFields))
        /\ TwoTerracesScenario =>
             docs.locales[1].terrazas.v = <<[id_terraza |-> Num(1)], [id_terraza |-> Num(2)]>>

----------------------------------------------------------------------------
(* Claims about the writers and the entry points                           *)

\* C3: no run leaves a partial output file: an output file that exists was
\* written whole, also when the writer raised after opening it.
C3_NoPartialOutputFile ==
    \A p \in DOMAIN files : files[p].exists => files[p].complete

\* C4: every entry point catches every error at its boundary: no exception
\* leaves a script uncaught.
C4_NoUncaughtError == pc # "crashed" /\ exc = ""

\* C5: a finished run of data_processing is all-or-nothing: it has written
\* both structured_locales.json and structured_licencias.json whole, or
\* neither file exists.
C5_AllOrNothing ==
    (script = "data_processing" /\ pc \in {"done", "crashed"}) =>
        \/ \A p \in DOMAIN files : files[p].exists /\ files[p].complete
        \/ \A p \in DOMAIN files : ~files[p].exists

----------------------------------------------------------------------------
(* Claims about data_modelling_airbnb.py                                   *)

\* the list an amenities cell encodes when it is the text of a list of
\* strings, the empty sequence for any other cell
EncodedStringList(cell) ==
    IF cell.t # "str" THEN <<>>
    ELSE LET parsed == literal_eval(cell.v)
         IN IF /\ parsed.raised = ""
               /\ parsed.value.t = "list"
               /\ \A i \in DOMAIN parsed.value.v : parsed.value.v[i].t = "str"
            THEN parsed.value.v
            ELSE <<>>

\* C6: parse_amenities never raises, so transform_to_json never aborts on
\* an amenities cell, and the amenities of every listing document are the
\* list of strings the cell encodes, or the empty sequence when the cell
\* encodes no such list.
C6_ParseAmenitiesTotal ==
    script = "data_modelling_airbnb" =>
        /\ pc = "crashed" => exc \in {"ValueError", "KeyError: 'id'"}
        /\ \A i \in DOMAIN docs :
             docs[i].amenities = EncodedStringList(RowGet(df.rows[i], "amenities", Str(<<>>)))

\* the statement that casts the numeric columns is about to run
AtCoercion ==
    \/ script = "data_modelling_airbnb" /\ pc = "normalize_columns"
    \/ script = "data_cleaning" /\ pc = "cast_integer_fields"

\* the columns the statement casts and the symbols it strips from each
CastColumns ==
    IF script = "data_modelling_airbnb"
    THEN {"price", "host_response_rate", "host_acceptance_rate", "accommodates",
          "bathrooms", "bedrooms", "beds", "availability_365", "host_listings_count"}
    ELSE {"mesas_aux_ra", "sillas_ra", "mesas_ra"}

StrippedSymbols(c) ==
    IF script # "data_modelling_airbnb" THEN {}
    ELSE IF c = "price" THEN {"$", ","}
    ELSE IF c \in {"host_response_rate", "host_acceptance_rate"} THEN {"%"}
    ELSE {}

\* a cell of a cast column holds text that is no number once its symbols
\* are stripped
HoldsNonNumericText ==
    \E i \in DOMAIN df.rows : \E c \in CastColumns \cap df.cols :
        /\ df.rows[i][c].t = "str"
        /\ ~IsNumeric(str_remove(df.rows[i][c].v, StrippedSymbols(c)))

NothingWritten == \A p \in DOMAIN files : ~files[p].exists

\* the run of the file has ended with an error: a ValueError that leaves
\* the script, or the diagnostic of clean_json_file
FailedWithError ==
    \/ pc = "crashed" /\ exc = "ValueError"
    \/ pc = "file_done" /\ printed # <<>>
         /\ printed[Len(printed)] = "An error occurred while cleaning the file"

\* C7: when the cast of the numeric columns meets a cell that still holds
\* non-numeric text after its symbols are stripped, the run of that file
\* fails there with an error and no output file has been written; a run
\* that died of the error takes no further step, so nothing derived from
\* the file is written later.
C7_CoercionFailureIsFatal ==
    [][/\ (AtCoercion /\ HoldsNonNumericText) => (FailedWithError' /\ NothingWritten')
       /\ pc # "crashed"
       /\ (pc = "file_done" /\ NothingWritten) => docs' = Append(docs, [written |-> FALSE, complete |-> FALSE])
      ]_vars

\* the cast of normalize_columns met non-numeric text and ended the run
C7_Witness ==
    /\ script = "data_modelling_airbnb"
    /\ pc = "crashed"
    /\ exc = "ValueError"
    /\ HoldsNonNumericText
    /\ NothingWritten

----------------------------------------------------------------------------
(* Claims about data_cleaning_airbnb.py                                    *)

\* remove_duplicates has just run: prev is its argument, df its result
AfterRemoveDuplicates == script = "data_cleaning_airbnb" /\ pc = "save"

DedupKey(row) == KeyOf(row, dedup_keys)

\* the position in prev of the first row with key k
FirstWithKey(k) ==
    CHOOSE i \in DOMAIN prev.rows :
        /\ DedupKey(prev.rows[i]) = k
        /\ \A j \in 1..(i - 1) : DedupKey(prev.rows[j]) # k

\* C8: remove_duplicates compares rows on latitude, longitude and name only
\* (two missing cells agree, as pandas has it): of every group of rows of
\* its argument that agree on the three keys exactly one row is in the
\* result, that row is the first of the group, the rows of the result keep
\* their relative order, and the columns are untouched.
C8_KeepFirstPerKey ==
    AfterRemoveDuplicates =>
        /\ df.cols = prev.cols
        /\ \A i \in DOMAIN prev.rows :
             Cardinality({n \in DOMAIN df.rows :
                            DedupKey(df.rows[n]) = DedupKey(prev.rows[i])}) = 1
        /\ \A n \in DOMAIN df.rows :
             /\ \E i \in DOMAIN prev.rows : DedupKey(prev.rows[i]) = DedupKey(df.rows[n])
             /\ df.rows[n] = prev.rows[FirstWithKey(DedupKey(df.rows[n]))]
        /\ \A n, m \in DOMAIN df.rows :
             n < m => FirstWithKey(DedupKey(df.rows[n])) < FirstWithKey(DedupKey(df.rows[m]))

\* remove_duplicates met two different rows that agree on the keys and a
\* third row that differs from them on a key
C8_Witness ==
    /\ AfterRemoveDuplicates
    /\ \E i, j, l \in DOMAIN prev.rows :
         /\ i < j
         /\ DedupKey(prev.rows[i]) = DedupKey(prev.rows[j])
         /\ prev.rows[i] # prev.rows[j]
         /\ DedupKey(prev.rows[l]) # DedupKey(prev.rows[i])
    /\ Len(df.rows) = 2

\* C9: deduplication is idempotent: the table remove_duplicates returned is
\* left as it is (same rows, same order) by a second remove_duplicates.
C9_DedupIdempotent ==
    AfterRemoveDuplicates =>
        /\ df = remove_duplicates(prev)
        /\ remove_duplicates(df) = df

\* the first remove_duplicates removed rows and left more than one
C9_Witness ==
    /\ AfterRemoveDuplicates
    /\ Len(df.rows) < Len(prev.rows)
    /\ Len(df.rows) >= 2
    /\ remove_duplicates(df) = df

\* line i of the input file misses a required key
LineMissesRequiredKey(i) == \E c \in required_keys : input.rows[i][c] = <<>>

LinesKept == {i \in DOMAIN input.rows : ~LineMissesRequiredKey(i)}

\* the dedup key of a kept line, read from the file's text: the name is
\* compared as normalize_text leaves it
LineKey(i) ==
    <<input.rows[i]["latitude"], input.rows[i]["longitude"],
      strip_lower(input.rows[i]["name"])>>

DroppedForRequiredKeys == Len(input.rows) - Cardinality(LinesKept)

DroppedDuplicates == Cardinality(LinesKept) - Cardinality({LineKey(i) : i \in LinesKept})

\* C10: the rows clean_airbnb_data writes are the input rows minus those
\* that miss latitude, longitude or neighbourhood_cleansed minus the
\* duplicates on (latitude, longitude, name); the other stages (column
\* removal, text normalisation, the writer) keep the row count.
C10_RowCount ==
    script = "data_cleaning_airbnb" =>
        /\ pc = "handle_missing_values" => Len(df.rows) = Len(input.rows)
        /\ pc \in {"normalize_text", "remove_duplicates"} =>
             Len(df.rows) = Len(input.rows) - DroppedForRequiredKeys
        /\ pc = "save" =>
             Len(df.rows) = Len(input.rows) - DroppedForRequiredKeys - DroppedDuplicates
        /\ files[CleanedCsvPath].complete =>
             Len(files[CleanedCsvPath].content) =
                Len(input.rows) - DroppedForRequiredKeys - DroppedDuplicates

\* a file was written after rows of both kinds were dropped
C10_Witness ==
    /\ script = "data_cleaning_airbnb"
    /\ files[CleanedCsvPath].complete
    /\ DroppedForRequiredKeys > 0
    /\ DroppedDuplicates > 0
    /\ Len(files[CleanedCsvPath].content) > 0

----------------------------------------------------------------------------
(* Claims about the default fills                                          *)

\* no cell of table t in a column of `defaults` is missing
NoMissingDefaulted(t, defaults) ==
    \A i \in DOMAIN t.rows : \A c \in DOMAIN defaults \cap t.cols : ~IsNa(t.rows[i][c])

\* the table clean_airbnb_data hands to its writer
CleanedByAirbnb == script = "data_cleaning_airbnb" /\ pc = "save"

\* the table replace_missing_values and normalize_columns produced
CleanedByModelling == script = "data_modelling_airbnb" /\ pc = "transform_to_json"

\* the modelling half alone: after replace_missing_values and
\* normalize_columns no cell of a default-filled column is missing
ModellingDefaultsFilled ==
    CleanedByModelling => NoMissingDefaulted(df, modelling_fill_defaults)

\* C11: after the Cleaner has run (all stages of clean_airbnb_data;
\* replace_missing_values then normalize_columns in the modelling script) no
\* cell of a column with a configured default fill is missing, also when the
\* source column holds cells of mixed types.
C11_DefaultsFilled ==
    /\ CleanedByAirbnb => NoMissingDefaulted(df, airbnb_fill_defaults)
    /\ ModellingDefaultsFilled

----------------------------------------------------------------------------
(* Claims about data_cleaning.py                                           *)

\* clean_json_file is about to write the cleaned table
AtJsonSave == script = "data_cleaning" /\ pc = "save_cleaned_data"

\* the input file as a table, its text cells stripped of whitespace
StrippedInput == strip_object_columns(DataFrameOf(input))

\* C12: the table clean_json_file writes has no column that had at most one
\* distinct non-missing value in the whitespace-stripped input: such a column
\* is removed and no later step brings it back.
C12_SingleValueColumnsStayRemoved ==
    AtJsonSave =>
        \A c \in df.cols \cap StrippedInput.cols : nunique(StrippedInput, c) > 1

----------------------------------------------------------------------------
(* Claims about the documents                                              *)

\* the fields of a listing document and the documented default of each
ListingDefaults ==
    [host_response_rate |-> Num(0), accommodates |-> Num(0), amenities |-> <<>>,
     price |-> Num(0)]

\* C13: transform_to_json never fails on a row that lacks a column; all the
\* documents of one table have the same keys, and a field whose column the
\* table lacks holds its documented default.
C13_DocumentShape ==
    script = "data_modelling_airbnb" =>
        /\ exc # "KeyError: 'id'"
        /\ pc = "save_to_json" =>
             /\ Len(docs) = Len(df.rows)
             /\ \A i \in DOMAIN docs :
                  /\ DOMAIN docs[i] = {"id"} \cup DOMAIN ListingDefaults
                  /\ \A f \in DOMAIN ListingDefaults \ df.cols :
                       docs[i][f] = ListingDefaults[f]

\* C14: once generate_locales_and_licencias has run there is exactly one
\* locale document per row of the locales table, in the order of the rows:
\* the i-th document is that of the i-th row, also when rows share an id_local.
C14_OneDocumentPerLocale ==
    GenerateRan =>
        /\ Len(docs.locales) = Len(input.locales.rows)
        /\ \A i \in DOMAIN docs.locales :
             /\ docs.locales[i].id_local = input.locales.rows[i]["id_local"]
             /\ docs.locales[i].rotulo = input.locales.rows[i]["rotulo"]

\* the columns update_agrupacion_fields rewrites
ReplacedCols == {"nombre_agrupacion", "desc_tipo_agrup"}

\* what a cell of column c that the input holds is written as: the text
\* stripped, lowered in desc_barrio_local, a number in an integer field
CleanedCell(c, cell) ==
    LET stripped == IF cell.t = "str" THEN StrAccessor(cell, str_strip) ELSE cell
    IN IF c \in json_integer_fields THEN CastCell(stripped)
       ELSE IF c = "desc_barrio_local" /\ stripped.t = "str" THEN StrAccessor(stripped, str_lower)
       ELSE stripped

\* C15: in the table clean_json_file writes no cell is missing; a cell the
\* input lacks is 0 in an integer field and the empty string elsewhere, and
\* a cell the input holds, text or not, keeps its value up to the stripping,
\* the lowering of desc_barrio_local and the integer cast.
C15_WrittenCells ==
    AtJsonSave =>
        \A i \in DOMAIN df.rows : \A c \in df.cols \ ReplacedCols :
            /\ ~IsNa(df.rows[i][c])
            /\ c \in input.cols =>
                 df.rows[i][c] =
                    IF IsNa(input.rows[i][c])
                    THEN (IF c \in json_integer_fields THEN Num(0) ELSE Str(<<>>))
                    ELSE CleanedCell(c, input.rows[i][c])

\* the loaded table after the drops of lines 85-87
AfterDrops ==
    remove_unnecessary_fields(
        remove_single_value_columns(strip_object_columns(DataFrameOf(input))),
        json_unnecessary_fields)

BarrioLeft == ~IsEmpty(DataFrameOf(input)) /\ "desc_barrio_local" \in AfterDrops.cols

CleanedFileWritten == files[CleanedJsonPath].exists

\* C16: clean_json_file creates its output file only for a loaded table
\* that is not empty and still has desc_barrio_local after the drops; when
\* the column is absent or was dropped, line 91 fails, the failure is caught
\* with the diagnostic printed and no file written, and the loop of the
\* batch goes on to the next file.
C16_WritesOnlyWithBarrio ==
    [][ script = "data_cleaning" =>
          /\ CleanedFileWritten' => BarrioLeft
          /\ (pc = "lower_barrio" /\ ~BarrioLeft) =>
                /\ pc' = "file_done"
                /\ printed' = Append(printed, "An error occurred while cleaning the file")
                /\ files' = files
          /\ (pc = "file_done" /\ ~BarrioLeft) =>
                /\ ~CleanedFileWritten
                /\ docs' = Append(docs, [written |-> FALSE, complete |-> FALSE])
                /\ pc' = "next_file"
          /\ pc' # "crashed" ]_vars

\* the second file of a batch lost desc_barrio_local as a single-valued
\* column, after the first was not written either
C16_Witness ==
    /\ script = "data_cleaning" /\ pc = "file_done"
    /\ Len(docs) = 1 /\ ~docs[1].written
    /\ "desc_barrio_local" \in input.cols /\ Len(input.rows) > 1
    /\ "desc_barrio_local" \notin AfterDrops.cols
    /\ printed[Len(printed)] = "An error occurred while cleaning the file"
    /\ ~CleanedFileWritten

====
